---- MODULE Spec2Model ----
(***************************************************************************)
(* A model of the phosphor data grid core: the cell renderers              *)
(* (src/src/grid/cellrenderer.ts and its earlier revisions) and the        *)
(* uniform section geometry map TestHeader.                                *)
(*                                                                         *)
(* Pixel coordinates are integers.  The one place the code produces a      *)
(* half pixel (config.y + config.height / 2) is kept exact by recording    *)
(* twice the value.                                                        *)
(***************************************************************************)
EXTENDS Integers, Sequences, FiniteSets, TLC

VARIABLES
  variant,          \* which revision of the renderer class is instantiated
  backgroundColor,  \* SimpleCellRenderer._backgroundColor / .backgroundColor
  changedCount,     \* invocations of the connected 'changed' listeners so far
  gc,               \* the CanvasRenderingContext2D state
  config,           \* the CellRenderer.IConfig the viewport hands to the renderer
  last,             \* what the most recent call did
  calls,            \* the draw methods paint() has invoked, in order
  listeners,        \* listeners connected to the renderer's 'changed' signal
  size,             \* TestHeader.size
  hlast,            \* the most recent TestHeader query
  handlers,         \* what each connected 'changed' listener does, in connection order
  observed,         \* what the listeners saw during the most recent assignment
  sections,         \* the rows the grid knows, in index order, by their identity
  ilast,            \* the most recent structural notification
  record,           \* the DataModel.ICellData record handed to cellData
  dlast,            \* the most recent use of the output record
  grid,             \* DataGrid._model, ._rowHeader, ._columnHeader
  wrote,            \* the value most recently assigned to each DataGrid property
  glast             \* the most recent DataGrid property access

vars == <<variant, backgroundColor, changedCount, gc, config, last, calls, listeners,
          size, hlast, handlers, observed, sections, ilast, record, dlast,
          grid, wrote, glast>>

(***************************************************************************)
(* Bounds of the model.                                                    *)
(***************************************************************************)
MaxExtent == 3      \* cell widths and heights range over 0..MaxExtent
MaxChanges == 4     \* 'changed' emissions counted before the setter is cut off
MaxPaints == 2      \* paint() calls recorded in calls
MaxAdvance == 1     \* glyph advance (pixels per character) of the surface font
MaxSize == 4        \* TestHeader section sizes range over 0..MaxSize
MaxIndex == 5       \* TestHeader section indices range over 0..MaxIndex
MaxListeners == 2   \* listeners connected to the 'changed' signal at most
MaxRows == 13       \* rows of the grid before insertions are cut off
MaxInsert == 3      \* rows one rowsInserted notification announces at most

(***************************************************************************)
(* JavaScript values.                                                      *)
(***************************************************************************)
Null == [t |-> "null"]
Undefined == [t |-> "undefined"]
NaN == [t |-> "nan"]
Str(s) == [t |-> "string", s |-> s]
Num(n) == [t |-> "number", n |-> n]
Bool(b) == [t |-> "boolean", b |-> b]
Func(f) == [t |-> "function", f |-> f]
Options(bg) == [t |-> "object", backgroundColor |-> bg]

\* SimpleCellRenderer.IBorderPart, and options that carry a border only.
BorderPart(position, color, style) ==
  [t |-> "object", position |-> position, color |-> color, style |-> style]

BorderOptions(border) ==
  [t |-> "object", backgroundColor |-> Undefined, border |-> border]

\* ToBoolean: what `!v`, `a && b` and `a || b` test.
Truthy(v) ==
  CASE v.t = "null" -> FALSE
    [] v.t = "undefined" -> FALSE
    [] v.t = "nan" -> FALSE
    [] v.t = "number" -> v.n # 0
    [] v.t = "string" -> v.s # ""
    [] v.t = "boolean" -> v.b
    [] OTHER -> TRUE

Digit(d) ==
  CASE d = 0 -> "0" [] d = 1 -> "1" [] d = 2 -> "2" [] d = 3 -> "3"
    [] d = 4 -> "4" [] d = 5 -> "5" [] d = 6 -> "6" [] d = 7 -> "7"
    [] d = 8 -> "8" [] d = 9 -> "9"

RECURSIVE Digits(_)
Digits(n) == IF n < 10 THEN Digit(n) ELSE Digits(n \div 10) \o Digit(n % 10)

\* value.toString() of a truthy primitive.
toString(v) ==
  CASE v.t = "string" -> v.s
    [] v.t = "number" -> IF v.n < 0 THEN "-" \o Digits(0 - v.n) ELSE Digits(v.n)
    [] v.t = "boolean" -> IF v.b THEN "true" ELSE "false"
    [] v.t = "nan" -> "NaN"

\* The color functions the application supplies: (row, column, value) => string.
ColorFunc(f, row, column, value) ==
  CASE f = "byColumn" -> IF column % 2 = 1 THEN Str("#FF9900") ELSE Str("#93C47D")
    [] f = "byValue" -> IF Truthy(value) THEN Str("#93C47D") ELSE Str("")
    [] f = "none" -> Str("")

\* A surface call issued by a draw method.
FillRect(g, x, y, w, h) ==
  [prim |-> "fillRect", x |-> x, y |-> y, w |-> w, h |-> h, fillStyle |-> g.fillStyle]

\* y2 is twice the y coordinate handed to fillText.
FillText(g, text, x, y2) ==
  [prim |-> "fillText", text |-> text, x |-> x, y2 |-> y2,
   fillStyle |-> g.fillStyle, textBaseline |-> g.textBaseline, font |-> g.font]

Stroke(g) ==
  [prim |-> "stroke", path |-> g.path, strokeStyle |-> g.strokeStyle,
   lineWidth |-> g.lineWidth]

\* The outcome of one draw method: the surface state it leaves, the surface
\* calls it issued, the color functions it invoked, and whether it threw.
Outcome(g, prims, fncalls, threw) ==
  [gc |-> g, prims |-> prims, fncalls |-> fncalls, threw |-> threw]

FnCall(fn, cfg) == [f |-> fn.f, row |-> cfg.row, column |-> cfg.column, value |-> cfg.value]

(***************************************************************************)
(* The drawing surface as the viewport hands it over: the canvas defaults, *)
(* no clip region, the identity transform.                                 *)
(***************************************************************************)
NewContext(advance) ==
  [fillStyle |-> "#000000", strokeStyle |-> "#000000", lineWidth |-> 1,
   textBaseline |-> "alphabetic", path |-> <<>>, clip |-> "none", id |-> "canvas",
   transform |-> "identity", font |-> [advance |-> advance, em |-> 2 * advance]]

(***************************************************************************)
(* SimpleCellRenderer.drawBackground and its revisions.                    *)
(***************************************************************************)

\* A resolution that asks the renderer default before the per-cell options.
effectiveBackgroundDefaultFirst(self, cfg) ==
  LET opts == cfg.options
      own == IF Truthy(opts)
             THEN (IF opts.t = "object" THEN opts.backgroundColor ELSE Undefined)
             ELSE opts
  IN IF Truthy(self) THEN self ELSE own

\* `(opts && opts.backgroundColor) || self`
effectiveBackground(self, cfg) ==
  LET opts == cfg.options
      own == IF Truthy(opts)
             THEN (IF opts.t = "object" THEN opts.backgroundColor ELSE Undefined)
             ELSE opts
  IN IF Truthy(own) THEN own ELSE self

\* The fill without the one-pixel inset and expansion.
fillBackgroundNoInset(g, bgColor, cfg) ==
  LET isString == bgColor.t = "string"
      fncalls == IF isString THEN <<>> ELSE <<FnCall(bgColor, cfg)>>
      color == IF isString THEN bgColor
               ELSE ColorFunc(bgColor.f, cfg.row, cfg.column, cfg.value)
  IN IF bgColor.t \notin {"string", "function"} THEN Outcome(g, <<>>, <<>>, TRUE)
     ELSE IF ~Truthy(color) THEN Outcome(g, <<>>, fncalls, FALSE)
     ELSE LET g1 == [g EXCEPT !.fillStyle = color.s]
          IN Outcome(g1, <<FillRect(g1, cfg.x, cfg.y, cfg.width, cfg.height)>>,
                     fncalls, FALSE)

\* Resolve the specification to a color string and fill with it: the
\* typeof test, the call of a color function (a TypeError when the
\* specification is neither a string nor callable), the empty-color bail,
\* gc.fillStyle = color and gc.fillRect(x - 1, y - 1, width + 1, height + 1).
fillBackground(g, bgColor, cfg) ==
  LET isString == bgColor.t = "string"
      fncalls == IF isString THEN <<>> ELSE <<FnCall(bgColor, cfg)>>
      color == IF isString THEN bgColor
               ELSE ColorFunc(bgColor.f, cfg.row, cfg.column, cfg.value)
  IN IF bgColor.t \notin {"string", "function"} THEN Outcome(g, <<>>, <<>>, TRUE)
     ELSE IF ~Truthy(color) THEN Outcome(g, <<>>, fncalls, FALSE)
     ELSE LET g1 == [g EXCEPT !.fillStyle = color.s]
          IN Outcome(g1, <<FillRect(g1, cfg.x - 1, cfg.y - 1, cfg.width + 1,
                                    cfg.height + 1)>>, fncalls, FALSE)

\* cellrenderer.ts, current revision (private _backgroundColor).
drawBackground(self, g, cfg) ==
  LET bgColor == effectiveBackground(self, cfg)
  IN IF ~Truthy(bgColor) THEN Outcome(g, <<>>, <<>>, FALSE)
     ELSE fillBackground(g, bgColor, cfg)

\* cellrenderer.ts, first revision (public field, no bail on an empty
\* specification).
drawBackgroundField(self, g, cfg) ==
  fillBackground(g, effectiveBackground(self, cfg), cfg)

\* The revision between the two (public field, bail on an empty
\* specification).
drawBackgroundPublic(self, g, cfg) ==
  LET bgColor == effectiveBackground(self, cfg)
  IN IF ~Truthy(bgColor) THEN Outcome(g, <<>>, <<>>, FALSE)
     ELSE fillBackground(g, bgColor, cfg)

\* The paint() revision: an empty method.
drawBackgroundPaint(g, cfg) == Outcome(g, <<>>, <<>>, FALSE)

\* The drawBackground of the renderer class instantiated.
drawBackgroundOf(v, self, g, cfg) ==
  CASE v = "signal" -> drawBackground(self, g, cfg)
    [] v = "public" -> drawBackgroundPublic(self, g, cfg)
    [] v = "field" -> drawBackgroundField(self, g, cfg)
    [] v = "paint" -> drawBackgroundPaint(g, cfg)

(***************************************************************************)
(* TextCellRenderer.drawContent (the same text in every revision).         *)
(***************************************************************************)

\* A drawContent that bails on null and undefined only.
drawContentUnlessNull(g, cfg) ==
  IF cfg.value.t \in {"null", "undefined"} THEN Outcome(g, <<>>, <<>>, FALSE)
  ELSE LET g1 == [g EXCEPT !.fillStyle = "black", !.textBaseline = "middle"]
       IN Outcome(g1, <<FillText(g1, toString(cfg.value), cfg.x + 2,
                                 2 * cfg.y + cfg.height)>>, <<>>, FALSE)

drawContent(g, cfg) ==
  IF ~Truthy(cfg.value) THEN Outcome(g, <<>>, <<>>, FALSE)
  ELSE LET g1 == [g EXCEPT !.fillStyle = "black", !.textBaseline = "middle"]
           text == toString(cfg.value)
           x == cfg.x + 2
           y2 == 2 * cfg.y + cfg.height
       IN Outcome(g1, <<FillText(g1, text, x, y2)>>, <<>>, FALSE)

(***************************************************************************)
(* SimpleCellRenderer.drawBorder.                                          *)
(***************************************************************************)

\* A drawBorder that clips to the cell and returns with the clip in effect.
drawBorderClipped(g, cfg) ==
  Outcome([g EXCEPT !.clip = "cell"], <<>>, <<>>, FALSE)

\* SimpleCellRenderer._border: declared, never assigned and never read.
rendererBorder == Undefined

\* cellrenderer.ts, current revision, and the revisions with an empty body.
drawBorder(g, cfg) == Outcome(g, <<>>, <<>>, FALSE)

\* cellrenderer.ts, first revision: a red outline for cell (10, 10).
drawBorderField(g, cfg) ==
  IF cfg.row = 10 /\ cfg.column = 10
  THEN LET g1 == [g EXCEPT
                    !.path = <<[x |-> cfg.x, y |-> cfg.y, w |-> cfg.width - 1,
                                h |-> cfg.height - 1]>>,
                    !.strokeStyle = "red",
                    !.lineWidth = 2]
       IN Outcome(g1, <<Stroke(g1)>>, <<>>, FALSE)
  ELSE Outcome(g, <<>>, <<>>, FALSE)

(***************************************************************************)
(* SimpleCellRenderer.paint (the single-call revision): background, then   *)
(* content, then border, on the same surface and the same configuration.   *)
(***************************************************************************)
Invocation(method, g, cfg) == [method |-> method, gc |-> g.id, config |-> cfg]

\* A paint that draws the border before the content.
paintBorderBeforeContent(g, cfg) ==
  LET b == drawBackgroundPaint(g, cfg)
      e == drawBorder(b.gc, cfg)
      c == drawContent(e.gc, cfg)
  IN [gc |-> c.gc, prims |-> b.prims \o e.prims \o c.prims,
      fncalls |-> <<>>, threw |-> FALSE,
      invoked |-> <<Invocation("drawBackground", g, cfg),
                    Invocation("drawBorder", b.gc, cfg),
                    Invocation("drawContent", e.gc, cfg)>>]

paint(g, cfg) ==
  LET b == drawBackgroundPaint(g, cfg)
      c == drawContent(b.gc, cfg)
      e == drawBorder(c.gc, cfg)
  IN [gc |-> e.gc, prims |-> b.prims \o c.prims \o e.prims,
      fncalls |-> b.fncalls \o c.fncalls \o e.fncalls, threw |-> FALSE,
      invoked |-> <<Invocation("drawBackground", g, cfg),
                    Invocation("drawContent", b.gc, cfg),
                    Invocation("drawBorder", c.gc, cfg)>>]

(***************************************************************************)
(* SimpleCellRenderer.backgroundColor.                                     *)
(***************************************************************************)

\* constructor: options.backgroundColor || ''
construct(optionsBackgroundColor) ==
  IF Truthy(optionsBackgroundColor) THEN optionsBackgroundColor ELSE Str("")

\* A setter without the equality check.
setBackgroundColorAlways(self, value) ==
  [stored |-> IF Truthy(value) THEN value ELSE Str(""), emits |-> 1]

\* set backgroundColor(value), current revision: the value stored and the
\* number of 'changed' emissions.
setBackgroundColor(self, value) ==
  LET v == IF Truthy(value) THEN value ELSE Str("")
  IN IF self = v THEN [stored |-> self, emits |-> 0]
     ELSE [stored |-> v, emits |-> 1]

\* What one setter call did: the stored value, the emissions so far and the
\* log of what listeners and nested assignments read.
Assignment(stored, emits, log) == [stored |-> stored, emits |-> emits, log |-> log]

\* A log entry: emission id, who read (a listener called, or the equality
\* check of a nested assignment), the value the emission announced and the
\* value read through the getter.
Read(id, who, for, read) == [id |-> id, who |-> who, for |-> for, read |-> read]

RECURSIVE emit(_, _, _, _, _)
RECURSIVE setAndEmitFirst(_, _, _, _, _)
RECURSIVE setAndEmit(_, _, _, _, _)

\* A listener of 'changed', called for emission id announcing v: "read" looks
\* at the renderer, "echo" assigns back the value it reads, "reset" assigns null.
Listener(st, hs, h, id, v) ==
  LET st1 == [st EXCEPT !.log = Append(@, Read(id, "listener", v, st.stored))]
  IN CASE h = "read" -> st1
       [] h = "echo" -> setAndEmit(st1, hs, st1.stored, id, v)
       [] h = "reset" -> setAndEmit(st1, hs, Null, id, v)

\* changed.emit(void 0): the listeners from the i-th on, in connection order.
emit(st, hs, i, id, v) ==
  IF i > Len(hs) THEN st ELSE emit(Listener(st, hs, hs[i], id, v), hs, i + 1, id, v)

\* A setter that emits before it stores.
setAndEmitFirst(st, hs, value, id, for) ==
  LET r == setBackgroundColor(st.stored, value)
      st1 == IF id = 0 THEN st
             ELSE [st EXCEPT !.log = Append(@, Read(id, "assignment", for, st.stored))]
  IN IF r.emits = 0 THEN st1
     ELSE [emit([st1 EXCEPT !.emits = @ + 1], hs, 1, st1.emits + 1, r.stored)
             EXCEPT !.stored = r.stored]

\* set backgroundColor(value) with its listeners: store, then emit. A nested
\* call (id > 0) logs what its equality check read during emission id.
setAndEmit(st, hs, value, id, for) ==
  LET r == setBackgroundColor(st.stored, value)
      st1 == IF id = 0 THEN st
             ELSE [st EXCEPT !.log = Append(@, Read(id, "assignment", for, st.stored))]
  IN IF r.emits = 0 THEN st1
     ELSE emit([st1 EXCEPT !.stored = r.stored, !.emits = @ + 1], hs, 1,
               st1.emits + 1, r.stored)

\* An assignment to the public field of the earlier revisions.
assignBackgroundColor(self, value) == [stored |-> value, emits |-> 0]

(***************************************************************************)
(* TestHeader: the uniform section geometry map.                           *)
(***************************************************************************)
Infinity(sign) == [t |-> "infinity", sign |-> sign]

\* Math.floor(n / d) for integers n and d >= 0.
MathFloorDiv(n, d) ==
  IF d = 0
  THEN (IF n = 0 THEN NaN ELSE IF n > 0 THEN Infinity(1) ELSE Infinity(-1))
  ELSE Num(n \div d)

\* A position counted from the end of the section.
sectionPositionOfEnd(s, index) == (index + 1) * s

sectionPosition(s, index) == index * s

\* A header whose sections have no extent.
sectionSizeZero(s, index) == 0

sectionSize(s, index) == s

\* Math.round in place of Math.floor.
sectionAtRounded(s, position) ==
  IF s = 0 THEN MathFloorDiv(position, s) ELSE Num((2 * position + s) \div (2 * s))

sectionAt(s, position) == MathFloorDiv(position, s)

(***************************************************************************)
(* DataGrid: the model, rowHeader and columnHeader properties.             *)
(***************************************************************************)
\* A reference to an object (a DataModel or a GridHeader).
Ref(name) == [t |-> "object", ref |-> name]

\* value = value || null
OrNull(value) == IF Truthy(value) THEN value ELSE Null

getModel(self) == Null

setModel(self, value) ==
  IF self._model = OrNull(value) THEN self ELSE [self EXCEPT !._model = OrNull(value)]

getRowHeader(self) == self._rowHeader

setRowHeader(self, value) ==
  IF self._rowHeader = OrNull(value) THEN self
  ELSE [self EXCEPT !._rowHeader = OrNull(value)]

getColumnHeader(self) == self._columnHeader

setColumnHeader(self, value) ==
  IF self._columnHeader = OrNull(value) THEN self
  ELSE [self EXCEPT !._columnHeader = OrNull(value)]

(***************************************************************************)
(* TestModel: the data model of the demo grid.                             *)
(***************************************************************************)
RowCount == 40
ColumnCount == 20
RowHeaderSize == 20
ColumnHeaderSize == 60

redOptions == Options(Str("#FF9900"))
greenOptions == Options(Str("#93C47D"))

ICellData(value, renderer, options) ==
  [value |-> value, renderer |-> renderer, options |-> options]

\* The output record with nothing written to it.
NoCellData == ICellData(Null, Null, Null)

\* A cellData that resets the options of a cell outside the styled block.
cellDataClearing(row, column, rec) ==
  LET out1 == [rec EXCEPT !.value =
                 Str("(" \o toString(Num(row)) \o ", " \o toString(Num(column)) \o ")")]
  IN IF row < 5 \/ row > 15 \/ column < 5 \/ column > 15
     THEN [out1 EXCEPT !.options = Null]
     ELSE IF column % 2 # 0 THEN [out1 EXCEPT !.options = redOptions]
          ELSE [out1 EXCEPT !.options = greenOptions]

\* A cellData with the two colors exchanged.
cellDataOddGreen(row, column, rec) ==
  LET out1 == [rec EXCEPT !.value =
                 Str("(" \o toString(Num(row)) \o ", " \o toString(Num(column)) \o ")")]
  IN IF row < 5 \/ row > 15 \/ column < 5 \/ column > 15 THEN out1
     ELSE IF column % 2 # 0 THEN [out1 EXCEPT !.options = greenOptions]
          ELSE [out1 EXCEPT !.options = redOptions]

\* TestModel.cellData(row, column, out): the record after the call.
cellData(row, column, rec) ==
  LET out1 == [rec EXCEPT !.value =
                 Str("(" \o toString(Num(row)) \o ", " \o toString(Num(column)) \o ")")]
  IN IF row < 5 \/ row > 15 \/ column < 5 \/ column > 15 THEN out1
     ELSE IF column % 2 # 0 THEN [out1 EXCEPT !.options = redOptions]
          ELSE [out1 EXCEPT !.options = greenOptions]

(***************************************************************************)
(* Inputs.                                                                 *)
(***************************************************************************)
Variants == {"field", "public", "signal", "paint"}

Coords == {-1, 0, 2}
Extents == 0..MaxExtent
Origins == {<<-1, -1>>, <<0, 2>>, <<2, 0>>}
Advances == 1..MaxAdvance
Sizes == 0..MaxSize
Indices == 0..MaxIndex
Positions == -2..((MaxIndex + 1) * MaxSize)

\* What the application assigns to backgroundColor or passes to the constructor.
ColorSpecs ==
  {Null, Undefined, Str(""), Str("#FF9900"), Str("#93C47D"), Func("byColumn"),
   Func("none")}

\* config.options: null, an object without backgroundColor, and objects with one.
OptionsSet ==
  {Null, Options(Undefined), Options(Str("")), Options(Str("#93C47D")),
   Options(Func("none")), Options(Func("byColumn")), Options(Func("byValue"))}

Values ==
  {Null, Undefined, Num(0), NaN, Str(""), Bool(FALSE),
   Num(7), Num(-12), Str("0"), Bool(TRUE), Str("(10, 10)")}

Cells == {<<0, 0>>, <<10, 10>>, <<5, 7>>}

Config(x, y, w, h, cell, value, options) ==
  [x |-> x, y |-> y, width |-> w, height |-> h, row |-> cell[1], column |-> cell[2],
   value |-> value, options |-> options]

\* The configurations a run is about: every geometry with a styled and an
\* unstyled cell, every options record for every cell at one geometry, every
\* cell with a border in its options, and
\* every value at the narrowest and the widest cell of every height at
\* three origins.
Configs ==
  {Config(x, y, w, h, <<10, 10>>, Str("(10, 10)"), o) :
     x \in Coords, y \in Coords, w \in Extents, h \in Extents,
     o \in {Null, Options(Str("#93C47D"))}}
  \cup
  {Config(0, 0, MaxExtent, MaxExtent, c, v, o) :
     c \in Cells, v \in {Null, Str("(10, 10)")}, o \in OptionsSet}
  \cup
  {Config(0, 0, MaxExtent, MaxExtent, c, Str("(10, 10)"),
          BorderOptions(BorderPart("all", "blue", "solid"))) : c \in Cells}
  \cup
  {Config(p[1], p[2], w, h, <<0, 0>>, v, Null) :
     p \in Origins, w \in {1, MaxExtent}, h \in Extents, v \in Values}

PaintConfigs ==
  {Config(0, 0, w, MaxExtent, c, v, Null) :
     w \in {1, MaxExtent}, c \in {<<0, 0>>, <<0, 1>>}, v \in {Null, Num(7)}}

\* The configuration of a run that draws nothing.
IdleConfig == Config(0, 0, 1, 1, <<0, 0>>, Null, Null)

NoCall ==
  [op |-> "new", arg |-> Undefined, emits |-> 0, prims |-> <<>>, fncalls |-> <<>>,
   threw |-> FALSE]

Called(op, out) ==
  [op |-> op, arg |-> Undefined, emits |-> 0, prims |-> out.prims,
   fncalls |-> out.fncalls, threw |-> out.threw]

\* What a listener connected to 'changed' may do.
Handlers == {"read", "echo", "reset"}

RECURSIVE SeqsUpTo(_, _)
SeqsUpTo(S, n) ==
  IF n = 0 THEN {<<>>}
  ELSE LET shorter == SeqsUpTo(S, n - 1)
       IN shorter \cup {Append(q, x) : q \in shorter, x \in S}

NoAssignment == [op |-> "new", value |-> Undefined, before |-> Undefined, emits |-> 0,
                 log |-> <<>>]

\* The values assigned to a DataGrid property.
Assigned == {Null, Undefined, Ref("a"), Ref("b")}

NoAccess == [op |-> "new", prop |-> "", value |-> Undefined, result |-> Undefined,
             before |-> Undefined]

Access(op, prop, value, result) ==
  [op |-> op, prop |-> prop, value |-> value, result |-> result, before |-> grid]

NoQuery == [op |-> "new", arg |-> 0, result |-> Null]

\* The cells of the demo model a run asks for: the corners of the grid and of
\* the styled block, cells just outside each side of it, and both parities.
DemoCells ==
  {<<0, 0>>, <<RowCount - 1, ColumnCount - 1>>, <<5, 5>>, <<15, 15>>, <<10, 10>>,
   <<10, 11>>, <<4, 10>>, <<16, 11>>, <<10, 4>>, <<10, 16>>}

\* The row counts a grid starts with.
RowCounts == {2, 10}

\* The identity of a row a notification announced.
NewRow == -1

NoNotification == [op |-> "new", start |-> 0, end |-> 0, before |-> <<>>]

\* The renderer names a caller puts in the record.
RendererNames == {Null, Str("text")}

NoData == [op |-> "new", row |-> 0, column |-> 0, before |-> NoCellData]

(***************************************************************************)
(* Initial states.                                                         *)
(***************************************************************************)
InitListening(vs, ctor, advances, cfgs, hss) ==
  /\ variant \in vs
  /\ \E c \in ctor : backgroundColor = construct(c)
  /\ changedCount = 0
  /\ handlers \in hss
  /\ listeners = Len(handlers)
  /\ observed = NoAssignment
  /\ \E a \in advances : gc = NewContext(a)
  /\ config \in cfgs
  /\ last = NoCall
  /\ calls = <<>>

\* A renderer with n listeners that only look at it.
InitRenderer(vs, ctor, advances, cfgs, n) ==
  InitListening(vs, ctor, advances, cfgs, {[i \in 1..n |-> "read"]})

InitHeader(ss) ==
  /\ size \in ss
  /\ hlast = NoQuery

\* A fresh TestModel and the cleared output record of its caller.
InitTestModel ==
  /\ record = NoCellData
  /\ dlast = NoData

\* The rows of a grid before any notification: row i is at index i.
InitRows(counts) ==
  /\ \E n \in counts : sections = [i \in 1..n |-> i - 1]
  /\ ilast = NoNotification

\* DataGrid's own fields after construction.
InitDataGrid ==
  /\ grid = [_model |-> Null, _rowHeader |-> Null, _columnHeader |-> Null]
  /\ wrote = [model |-> Null, rowHeader |-> Null, columnHeader |-> Null]
  /\ glast = NoAccess

InitGrid == InitTestModel /\ InitRows({0}) /\ InitDataGrid

Init ==
  /\ InitRenderer(Variants, ColorSpecs, Advances, Configs, 0)
  /\ InitHeader({20})
  /\ InitGrid

(***************************************************************************)
(* Actions of the renderer.                                                *)
(***************************************************************************)
rendererVars == <<variant, backgroundColor, changedCount, gc, config, last, calls, listeners>>
headerVars == <<size, hlast>>
dataGridVars == <<grid, wrote, glast>>
gridVars == <<handlers, observed, sections, ilast, record, dlast, dataGridVars>>

SetBackgroundColor(value) ==
  /\ variant # "paint"
  /\ listeners = 0 \/ changedCount < MaxChanges
  /\ LET r == IF variant = "signal" THEN setBackgroundColor(backgroundColor, value)
              ELSE assignBackgroundColor(backgroundColor, value)
     IN /\ backgroundColor' = r.stored
        /\ changedCount' = changedCount + r.emits * listeners
        /\ last' = [NoCall EXCEPT !.op = "set", !.arg = value, !.emits = r.emits]
  /\ UNCHANGED <<variant, gc, config, calls, listeners, headerVars, gridVars>>

\* renderer.backgroundColor = value, with the connected listeners run.
AssignBackgroundColor(value) ==
  /\ variant = "signal"
  /\ changedCount < MaxChanges
  /\ LET r == setAndEmit(Assignment(backgroundColor, 0, <<>>), handlers, value, 0, Undefined)
         called == {k \in 1..Len(r.log) : r.log[k].who = "listener"}
     IN /\ backgroundColor' = r.stored
        /\ changedCount' = changedCount + Cardinality(called)
        /\ observed' = [op |-> "assign", value |-> value, before |-> backgroundColor,
                        emits |-> r.emits, log |-> r.log]
        /\ last' = [NoCall EXCEPT !.op = "set backgroundColor", !.arg = value,
                                  !.emits = r.emits]
  /\ UNCHANGED <<variant, gc, config, calls, listeners, headerVars, handlers, sections,
                 ilast, record, dlast, dataGridVars>>

DrawBackground ==
  /\ variant # "paint"
  /\ LET out == drawBackgroundOf(variant, backgroundColor, gc, config)
     IN /\ gc' = out.gc
        /\ last' = Called("drawBackground", out)
  /\ UNCHANGED <<variant, backgroundColor, changedCount, config, calls, listeners, headerVars, gridVars>>

DrawContent ==
  /\ variant # "paint"
  /\ LET out == drawContent(gc, config)
     IN /\ gc' = out.gc
        /\ last' = Called("drawContent", out)
  /\ UNCHANGED <<variant, backgroundColor, changedCount, config, calls, listeners, headerVars, gridVars>>

DrawBorder ==
  /\ variant # "paint"
  /\ LET out == IF variant = "field" THEN drawBorderField(gc, config)
                ELSE drawBorder(gc, config)
     IN /\ gc' = out.gc
        /\ last' = Called("drawBorder", out)
  /\ UNCHANGED <<variant, backgroundColor, changedCount, config, calls, listeners, headerVars, gridVars>>

Paint ==
  /\ variant = "paint"
  /\ Len(calls) < 3 * MaxPaints
  /\ LET out == paint(gc, config)
     IN /\ gc' = out.gc
        /\ last' = [Called("paint", out) EXCEPT !.arg = config]
        /\ calls' = calls \o out.invoked
  /\ UNCHANGED <<variant, backgroundColor, changedCount, config, listeners, headerVars, gridVars>>

\* The viewport moves on to another cell of the repaint.
NextCell ==
  /\ \E c \in PaintConfigs : c # config /\ config' = c
  /\ UNCHANGED <<variant, backgroundColor, changedCount, gc, last, calls, listeners,
                 headerVars, gridVars>>

(***************************************************************************)
(* Actions of the demo model and of the caller that owns the output record.*)
(***************************************************************************)
CellData(row, column) ==
  /\ record' = cellData(row, column, record)
  /\ dlast' = [op |-> "cellData", row |-> row, column |-> column, before |-> record]
  /\ UNCHANGED <<rendererVars, headerVars, handlers, observed, sections, ilast,
                 dataGridVars>>

\* The caller clears the record before asking for the next cell, naming the
\* renderer it falls back to.
ClearData(renderer) ==
  /\ record' = ICellData(Null, renderer, Null)
  /\ dlast' = [op |-> "clear", row |-> 0, column |-> 0, before |-> record]
  /\ UNCHANGED <<rendererVars, headerVars, handlers, observed, sections, ilast,
                 dataGridVars>>

\* The viewport builds the cell's configuration from the record and from the
\* headers of the grid.
ConfigureCell ==
  /\ dlast.op = "cellData"
  /\ config' = Config(sectionPosition(ColumnHeaderSize, dlast.column),
                      sectionPosition(RowHeaderSize, dlast.row),
                      sectionSize(ColumnHeaderSize, dlast.column),
                      sectionSize(RowHeaderSize, dlast.row),
                      <<dlast.row, dlast.column>>, record.value, record.options)
  /\ last' = NoCall
  /\ UNCHANGED <<variant, backgroundColor, changedCount, gc, calls, listeners,
                 headerVars, gridVars>>

(***************************************************************************)
(* The reaction to DataModel.rowsInserted with the range [start, end).     *)
(***************************************************************************)
RowsInserted(start, end) ==
  /\ start <= Len(sections)
  /\ Len(sections) + (end - start) <= MaxRows
  /\ sections' = SubSeq(sections, 1, start) \o [i \in 1..(end - start) |-> NewRow]
                   \o SubSeq(sections, start + 1, Len(sections))
  /\ ilast' = [op |-> "rowsInserted", start |-> start, end |-> end, before |-> sections]
  /\ UNCHANGED <<rendererVars, headerVars, handlers, observed, record, dlast,
                 dataGridVars>>

(***************************************************************************)
(* Accesses to the DataGrid properties.                                    *)
(***************************************************************************)
SetModel(value) ==
  /\ grid' = setModel(grid, value)
  /\ wrote' = [wrote EXCEPT !.model = value]
  /\ glast' = Access("set", "model", value, Undefined)
  /\ UNCHANGED <<rendererVars, headerVars, handlers, observed, sections, ilast, record,
                 dlast>>

GetModel ==
  /\ glast' = Access("get", "model", Undefined, getModel(grid))
  /\ UNCHANGED <<rendererVars, headerVars, handlers, observed, sections, ilast, record,
                 dlast, grid, wrote>>

SetRowHeader(value) ==
  /\ grid' = setRowHeader(grid, value)
  /\ wrote' = [wrote EXCEPT !.rowHeader = value]
  /\ glast' = Access("set", "rowHeader", value, Undefined)
  /\ UNCHANGED <<rendererVars, headerVars, handlers, observed, sections, ilast, record,
                 dlast>>

GetRowHeader ==
  /\ glast' = Access("get", "rowHeader", Undefined, getRowHeader(grid))
  /\ UNCHANGED <<rendererVars, headerVars, handlers, observed, sections, ilast, record,
                 dlast, grid, wrote>>

SetColumnHeader(value) ==
  /\ grid' = setColumnHeader(grid, value)
  /\ wrote' = [wrote EXCEPT !.columnHeader = value]
  /\ glast' = Access("set", "columnHeader", value, Undefined)
  /\ UNCHANGED <<rendererVars, headerVars, handlers, observed, sections, ilast, record,
                 dlast>>

GetColumnHeader ==
  /\ glast' = Access("get", "columnHeader", Undefined, getColumnHeader(grid))
  /\ UNCHANGED <<rendererVars, headerVars, handlers, observed, sections, ilast, record,
                 dlast, grid, wrote>>

(***************************************************************************)
(* Actions of the section geometry map.                                    *)
(***************************************************************************)
SectionPosition(index) ==
  /\ hlast' = [op |-> "sectionPosition", arg |-> index,
               result |-> Num(sectionPosition(size, index))]
  /\ UNCHANGED <<size, rendererVars, gridVars>>

SectionSize(index) ==
  /\ hlast' = [op |-> "sectionSize", arg |-> index,
               result |-> Num(sectionSize(size, index))]
  /\ UNCHANGED <<size, rendererVars, gridVars>>

SectionAt(position) ==
  /\ hlast' = [op |-> "sectionAt", arg |-> position, result |-> sectionAt(size, position)]
  /\ UNCHANGED <<size, rendererVars, gridVars>>

(***************************************************************************)
(* Specifications.                                                         *)
(***************************************************************************)
Next ==
  \/ \E v \in ColorSpecs : SetBackgroundColor(v)
  \/ DrawBackground
  \/ DrawContent
  \/ DrawBorder
  \/ Paint

\* The three-method and single-call renderers drawing one cell.
Spec == Init /\ [][Next]_vars

\* The current renderer with one listener connected to 'changed', assigned to
\* and drawing the background of one unstyled cell.
InitSetter ==
  /\ InitRenderer({"signal"}, ColorSpecs, {1}, {IdleConfig}, 1)
  /\ InitHeader({20})
  /\ InitGrid

NextSetter == (\E v \in ColorSpecs : SetBackgroundColor(v)) \/ DrawBackground

SpecSetter == InitSetter /\ [][NextSetter]_vars

\* The single-call renderer over the cells of a repaint.
InitPaint ==
  /\ InitRenderer({"paint"}, {Undefined}, Advances, PaintConfigs, 0)
  /\ InitHeader({20})
  /\ InitGrid

NextPaint == Paint \/ NextCell

SpecPaint == InitPaint /\ [][NextPaint]_vars

\* TestHeader of any supported section size.
InitGeometry ==
  /\ InitRenderer({"signal"}, {Undefined}, {1}, {IdleConfig}, 0)
  /\ InitHeader(Sizes)
  /\ InitGrid

NextGeometry ==
  \/ \E i \in Indices : SectionPosition(i)
  \/ \E i \in Indices : SectionSize(i)
  \/ \E p \in Positions : SectionAt(p)

SpecGeometry == InitGeometry /\ [][NextGeometry]_vars

\* The demo grid: TestModel painted by a renderer with no default background.
InitDemo ==
  /\ InitRenderer({"field"}, {Undefined}, {1}, {IdleConfig}, 0)
  /\ InitHeader({RowHeaderSize})
  /\ InitGrid

NextDemo ==
  \/ \E c \in DemoCells : CellData(c[1], c[2])
  \/ \E r \in RendererNames : ClearData(r)
  \/ ConfigureCell
  \/ DrawBackground
  \/ DrawBorder

SpecDemo == InitDemo /\ [][NextDemo]_vars

\* A DataGrid whose properties are assigned and read.
InitDataGridAccess ==
  /\ InitRenderer({"signal"}, {Undefined}, {1}, {IdleConfig}, 0)
  /\ InitHeader({RowHeaderSize})
  /\ InitGrid

NextDataGrid ==
  \/ \E v \in Assigned : SetModel(v)
  \/ GetModel
  \/ \E v \in Assigned : SetRowHeader(v)
  \/ GetRowHeader
  \/ \E v \in Assigned : SetColumnHeader(v)
  \/ GetColumnHeader

SpecDataGrid == InitDataGridAccess /\ [][NextDataGrid]_vars

\* The renderer with listeners that read and assign during an emission.
InitNotify ==
  /\ InitListening({"signal"}, ColorSpecs, {1}, {IdleConfig}, SeqsUpTo(Handlers, MaxListeners))
  /\ InitHeader({20})
  /\ InitGrid

NextNotify == \E v \in ColorSpecs : AssignBackgroundColor(v)

SpecNotify == InitNotify /\ [][NextNotify]_vars

\* A grid of rows that receives rowsInserted notifications.
InitInsert ==
  /\ InitRenderer({"signal"}, {Undefined}, {1}, {IdleConfig}, 0)
  /\ InitHeader({RowHeaderSize})
  /\ InitTestModel
  /\ InitRows(RowCounts)
  /\ InitDataGrid

NextInsert ==
  \E start \in 0..MaxRows, k \in 1..MaxInsert : RowsInserted(start, start + k)

SpecInsert == InitInsert /\ [][NextInsert]_vars

(***************************************************************************)
(* Claims.                                                                 *)
(***************************************************************************)

\* null and undefined are treated as the empty string.
Normalized(v) == IF v.t \in {"null", "undefined"} THEN Str("") ELSE v

\* C1: an assignment to backgroundColor of the value already stored (null and
\* undefined counting as '') calls the 'changed' listener zero times and
\* leaves the stored value; an assignment of a different value stores it and
\* calls the listener exactly once.
C1_UnchangedAssignmentIsSilent ==
  [][last'.op = "set" =>
       IF Normalized(last'.arg) = backgroundColor
       THEN changedCount' = changedCount /\ backgroundColor' = backgroundColor
       ELSE changedCount' = changedCount + 1
            /\ backgroundColor' = Normalized(last'.arg)]_vars

\* A changed value has been assigned again: one emission for the first
\* assignment, none for the second.
C1_Witness ==
  /\ last.op = "set"
  /\ last.arg = backgroundColor
  /\ backgroundColor = Func("byColumn")
  /\ last.emits = 0
  /\ changedCount = 1

\* The per-cell background specification of the configuration, if any.
PerCellBackground ==
  IF config.options.t = "object" THEN config.options.backgroundColor ELSE Undefined

NonEmpty(v) == v.t = "function" \/ (v.t = "string" /\ v.s # "")

\* The specification the two tiers resolve to.
ResolvedBackground ==
  IF NonEmpty(PerCellBackground) THEN PerCellBackground ELSE backgroundColor

\* The call did exactly one fill, with this fill style.
FilledWith(color) ==
  /\ Len(last.prims) = 1
  /\ last.prims[1].prim = "fillRect"
  /\ last.prims[1].fillStyle = color
  /\ gc.fillStyle = color

\* C2: drawBackground takes the per-cell options.backgroundColor when it is
\* present and non-empty and the renderer's backgroundColor otherwise; a
\* string is the color, a function is called once with (row, column, value)
\* and its result is the color; an empty result of a per-cell function paints
\* nothing and does not bring in the renderer default.
C2_TwoTierBackground ==
  last.op = "drawBackground" =>
    /\ ResolvedBackground.t = "string" =>
         /\ last.fncalls = <<>>
         /\ ~last.threw
         /\ IF ResolvedBackground.s = "" THEN last.prims = <<>>
            ELSE FilledWith(ResolvedBackground.s)
    /\ ResolvedBackground.t = "function" =>
         /\ last.fncalls = <<[f |-> ResolvedBackground.f, row |-> config.row,
                              column |-> config.column, value |-> config.value]>>
         /\ ~last.threw
         /\ LET color == ColorFunc(ResolvedBackground.f, config.row, config.column,
                                   config.value).s
            IN IF color = "" THEN last.prims = <<>> ELSE FilledWith(color)

\* A per-cell function returned the empty color while the renderer has a
\* default color: the function was called and nothing was painted.
C2_Witness ==
  /\ last.op = "drawBackground"
  /\ PerCellBackground = Func("none")
  /\ backgroundColor = Str("#FF9900")
  /\ Len(last.fncalls) = 1
  /\ last.prims = <<>>

\* C3: with no per-cell background (options null, no backgroundColor, or an
\* empty one) and no renderer default ('', or null/undefined assigned after
\* construction), and whenever the resolved color function returns '',
\* drawBackground returns normally and fills nothing.
C3_EmptyBackgroundIsNoOp ==
  last.op = "drawBackground" =>
    /\ (~NonEmpty(PerCellBackground) /\ ~NonEmpty(backgroundColor)) =>
         (~last.threw /\ last.prims = <<>>)
    /\ (ResolvedBackground.t = "function"
        /\ ColorFunc(ResolvedBackground.f, config.row, config.column, config.value).s = "")
         => (~last.threw /\ last.prims = <<>>)

(***************************************************************************)
(* What a surface call paints, as the inclusive pixel columns and rows it  *)
(* touches.                                                                *)
(***************************************************************************)
Min(a, b) == IF a < b THEN a ELSE b
Max(a, b) == IF a > b THEN a ELSE b

Box(left, top, right, bottom) ==
  [left |-> left, top |-> top, right |-> right, bottom |-> bottom]

IsEmptyBox(b) == b.right < b.left \/ b.bottom < b.top

\* fillRect paints [x, x + w) by [y, y + h); fillText with a middle baseline
\* paints one advance per character from x, half an em above and below y;
\* stroke paints half the line width on either side of the rectangle path.
Painted(p) ==
  CASE p.prim = "fillRect" -> Box(p.x, p.y, p.x + p.w - 1, p.y + p.h - 1)
    [] p.prim = "fillText" ->
         Box(p.x, (p.y2 - p.font.em) \div 2,
             p.x + Len(p.text) * p.font.advance - 1,
             ((p.y2 + p.font.em + 1) \div 2) - 1)
    [] p.prim = "stroke" ->
         LET r == p.path[1]
             half == p.lineWidth \div 2
         IN Box(Min(r.x, r.x + r.w) - half, Min(r.y, r.y + r.h) - half,
                Max(r.x, r.x + r.w) + half - 1, Max(r.y, r.y + r.h) + half - 1)

\* The box a renderer may paint: (x - 1, y - 1) to (x + width - 1, y + height - 1).
CellBox(cfg) == Box(cfg.x - 1, cfg.y - 1, cfg.x + cfg.width - 1, cfg.y + cfg.height - 1)

Inside(b, outer) ==
  \/ IsEmptyBox(b)
  \/ /\ outer.left <= b.left /\ b.right <= outer.right
     /\ outer.top <= b.top /\ b.bottom <= outer.bottom

\* C4: every surface call of drawBackground, drawContent and drawBorder paints
\* inside the box (x - 1, y - 1) to (x + width - 1, y + height - 1) of its
\* configuration, whatever the cell's position, size and value.
C4_DrawsInsideCell ==
  last.op \in {"drawBackground", "drawContent", "drawBorder"} =>
    \A i \in 1..Len(last.prims) : Inside(Painted(last.prims[i]), CellBox(config))

\* The color the two tiers resolve to, '' when there is none.
ResolvedColor ==
  CASE ResolvedBackground.t = "string" -> ResolvedBackground.s
    [] ResolvedBackground.t = "function" ->
         ColorFunc(ResolvedBackground.f, config.row, config.column, config.value).s
    [] OTHER -> ""

\* The fill drawBackground issues for a configuration, given the renderer.
FillOf(cfg) == drawBackgroundOf(variant, backgroundColor, gc, cfg).prims[1]

Columns(p) == p.x .. (p.x + p.w - 1)
Rows(p) == p.y .. (p.y + p.h - 1)

\* C5: with a non-empty resolved color drawBackground sets the fill style to
\* it and fills exactly once, the rectangle at (x - 1, y - 1) of size
\* (width + 1, height + 1); the fill of the cell to the right shares exactly
\* one pixel column with it and the fill of the cell below exactly one pixel
\* row, with no gap.
C5_SeamlessFill ==
  (last.op = "drawBackground" /\ ResolvedColor # "") =>
    /\ FilledWith(ResolvedColor)
    /\ last.prims[1].x = config.x - 1 /\ last.prims[1].y = config.y - 1
    /\ last.prims[1].w = config.width + 1 /\ last.prims[1].h = config.height + 1
    /\ \A e \in Extents :
         LET right == FillOf([config EXCEPT !.x = config.x + config.width, !.width = e])
             below == FillOf([config EXCEPT !.y = config.y + config.height, !.height = e])
         IN /\ Cardinality(Columns(last.prims[1]) \cap Columns(right)) = 1
            /\ (Columns(last.prims[1]) \cup Columns(right))
                 = (config.x - 1) .. (config.x + config.width + e - 1)
            /\ Cardinality(Rows(last.prims[1]) \cap Rows(below)) = 1
            /\ (Rows(last.prims[1]) \cup Rows(below))
                 = (config.y - 1) .. (config.y + config.height + e - 1)

\* A cell at a negative position was filled with the color of its options.
C5_Witness ==
  /\ last.op = "drawBackground"
  /\ config.x = -1 /\ config.y = -1 /\ config.width = 2 /\ config.height = 0
  /\ Len(last.prims) = 1
  /\ last.prims[1] = [prim |-> "fillRect", x |-> -2, y |-> -2, w |-> 3, h |-> 1,
                      fillStyle |-> "#93C47D"]

\* C6: no call of drawBackground, drawContent, drawBorder or paint changes
\* the surface's clip region or its coordinate transform.
C6_ClipAndTransformRestored ==
  [][gc'.clip = gc.clip /\ gc'.transform = gc.transform]_vars

\* The first revision has drawn a background, a text and the border of cell
\* (10, 10), and the surface has its initial clip region and transform.
C6_Witness ==
  /\ last.op = "drawBorder"
  /\ Len(last.prims) = 1
  /\ gc.fillStyle = "black"
  /\ gc.strokeStyle = "red"
  /\ gc.clip = "none"
  /\ gc.transform = "identity"

\* The values JavaScript converts to false.
Falsy(v) == v \in {Null, Undefined, Num(0), NaN, Str(""), Bool(FALSE)}

\* The string form of the other values a cell holds here.
StringForm(v) ==
  CASE v = Num(7) -> "7"
    [] v = Num(-12) -> "-12"
    [] v = Str("0") -> "0"
    [] v = Bool(TRUE) -> "true"
    [] v = Str("(10, 10)") -> "(10, 10)"

\* C7: drawContent draws nothing for a falsy value; for any other value it
\* issues exactly one fillText of the value's string form at x + 2 and
\* y + height / 2 with the middle baseline.
C7_TextContent ==
  last.op = "drawContent" =>
    IF Falsy(config.value) THEN last.prims = <<>>
    ELSE /\ Len(last.prims) = 1
         /\ last.prims[1].prim = "fillText"
         /\ last.prims[1].text = StringForm(config.value)
         /\ last.prims[1].x = config.x + 2
         /\ last.prims[1].y2 = 2 * config.y + config.height
         /\ last.prims[1].textBaseline = "middle"

\* The number 0 was handed to drawContent and nothing was drawn.
C7_Witness ==
  /\ last.op = "drawContent"
  /\ config.value = Num(0)
  /\ last.prims = <<>>
  /\ gc.textBaseline = "alphabetic"

\* C8: paint invokes drawBackground, drawContent and drawBorder, once each
\* and in that order, with the surface and the configuration it was given;
\* over several cells the invocations come in whole triples, one per cell.
C8_PaintOrder ==
  /\ Len(calls) % 3 = 0
  /\ \A k \in 0..((Len(calls) \div 3) - 1) :
       /\ calls[3 * k + 1].method = "drawBackground"
       /\ calls[3 * k + 2].method = "drawContent"
       /\ calls[3 * k + 3].method = "drawBorder"
       /\ calls[3 * k + 2].config = calls[3 * k + 1].config
       /\ calls[3 * k + 3].config = calls[3 * k + 1].config
       /\ calls[3 * k + 1].gc = gc.id
       /\ calls[3 * k + 2].gc = gc.id
       /\ calls[3 * k + 3].gc = gc.id
  /\ last.op = "paint" =>
       /\ Len(calls) >= 3
       /\ calls[Len(calls) - 2].config = last.arg

\* Two different cells have been painted, one after the other.
C8_Witness ==
  /\ Len(calls) = 6
  /\ calls[1].config # calls[4].config
  /\ calls[4].config = config
  /\ last.op = "paint"

\* The sizes of the sections before index i, added up.
RECURSIVE SizesBefore(_, _)
SizesBefore(s, i) == IF i = 0 THEN 0 ELSE SizesBefore(s, i - 1) + sectionSize(s, i - 1)

Covers(s, i, p) ==
  sectionPosition(s, i) <= p /\ p < sectionPosition(s, i) + sectionSize(s, i)

\* C9: for a section size >= 1, sectionAt maps the first and the last pixel
\* of every section to its index, and every position p >= 0 to floor(p / s),
\* the only index whose interval [position, position + size) contains p.
C9_SectionAtInvertsPosition ==
  size >= 1 =>
    /\ \A i \in Indices :
         /\ sectionAt(size, sectionPosition(size, i)) = Num(i)
         /\ sectionAt(size, sectionPosition(size, i) + sectionSize(size, i) - 1) = Num(i)
    /\ (hlast.op = "sectionAt" /\ hlast.arg >= 0) =>
         /\ hlast.result.t = "number"
         /\ hlast.result.n * size <= hlast.arg
         /\ hlast.arg < (hlast.result.n + 1) * size
         /\ \A j \in 0..hlast.arg : Covers(size, j, hlast.arg) <=> j = hlast.result.n

\* The last pixel of the third section was looked up.
C9_Witness ==
  /\ hlast.op = "sectionAt"
  /\ size = 3
  /\ hlast.arg = 8
  /\ hlast.result = Num(2)

\* C10: sectionPosition(0) is 0, sectionPosition never decreases with the
\* index, and each section starts where the one before it ends, for every
\* section size, zero included.
C10_PositionsContiguous ==
  /\ sectionPosition(size, 0) = 0
  /\ \A i \in Indices :
       /\ sectionPosition(size, i) <= sectionPosition(size, i + 1)
       /\ sectionPosition(size, i + 1) = sectionPosition(size, i) + sectionSize(size, i)
  /\ hlast.op = "sectionPosition" => hlast.result = Num(SizesBefore(size, hlast.arg))

\* A section position of the map of size zero was looked up.
C10_Witness ==
  /\ hlast.op = "sectionPosition"
  /\ size = 0
  /\ hlast.arg = 3
  /\ hlast.result = Num(0)

\* The per-cell border specification of the configuration, if any.
PerCellBorder ==
  IF config.options.t = "object" /\ "border" \in DOMAIN config.options
  THEN config.options.border
  ELSE Undefined

\* The border specification the two tiers resolve to.
ResolvedBorder == IF PerCellBorder # Undefined THEN PerCellBorder ELSE rendererBorder

\* C11: drawBorder takes the border of the per-cell options and the
\* renderer's border otherwise; with no resolved border it draws nothing,
\* whatever the cell's row and column, and with one it strokes the edges in
\* the color the specification gives.
C11_TwoTierBorder ==
  (last.op = "drawBorder" /\ variant # "paint") =>
    IF ResolvedBorder = Undefined THEN last.prims = <<>>
    ELSE /\ last.prims # <<>>
         /\ \A i \in 1..Len(last.prims) :
              /\ last.prims[i].prim = "stroke"
              /\ last.prims[i].strokeStyle = ResolvedBorder.color

\* The cells of the demo model that carry options.
Styled(row, column) == row >= 5 /\ row <= 15 /\ column >= 5 /\ column <= 15

\* The options policy of the demo model: orange for odd columns and green for
\* even columns inside the styled block, no options elsewhere when the record
\* handed in had none.
DemoPolicy ==
  dlast.op = "cellData" =>
    IF Styled(dlast.row, dlast.column)
    THEN record.options =
           Options(Str(IF dlast.column % 2 = 1 THEN "#FF9900" ELSE "#93C47D"))
    ELSE dlast.before.options = Null => record.options = Null

\* The configuration is the one of cell (row, column).
AtCell(row, column) == config.row = row /\ config.column = column

\* With the policy in force, cell (10, 10) is painted with the given background
\* and a stroked outline, and cell (0, 0) without options paints no background.
DemoResolves(color) ==
  /\ DemoPolicy
  /\ (AtCell(10, 10) /\ last.op = "drawBackground") =>
       /\ ~last.threw
       /\ Len(last.prims) = 1
       /\ last.prims[1].prim = "fillRect"
       /\ last.prims[1].fillStyle = color
  /\ (AtCell(10, 10) /\ last.op = "drawBorder") =>
       /\ Len(last.prims) = 1
       /\ last.prims[1].prim = "stroke"
       /\ last.prims[1].path =
            <<[x |-> config.x, y |-> config.y, w |-> config.width - 1,
               h |-> config.height - 1]>>
  /\ (AtCell(0, 0) /\ config.options = Null /\ last.op = "drawBackground") =>
       /\ ~last.threw
       /\ last.prims = <<>>

RECURSIVE ExtentOf(_, _)
\* The extent of the sections [start, end) in the geometry map.
ExtentOf(start, end) ==
  IF start >= end THEN 0 ELSE sectionSize(size, start) + ExtentOf(start + 1, end)

\* After rowsInserted [start, end): the rows before start stay, the rows at or
\* after start move up by end - start, the rows in between are new; in the
\* geometry map every moved row is shifted by the inserted extent and the
\* total extent grows by it.
InsertShifts ==
  ilast.op = "rowsInserted" =>
    LET n == Len(ilast.before)
        k == ilast.end - ilast.start
        inserted == ExtentOf(ilast.start, ilast.end)
    IN /\ Len(sections) = n + k
       /\ \A i \in 0..(n - 1) :
            LET j == IF i < ilast.start THEN i ELSE i + k
            IN /\ sections[j + 1] = ilast.before[i + 1]
               /\ sectionPosition(size, j) =
                    sectionPosition(size, i) + (IF i < ilast.start THEN 0 ELSE inserted)
       /\ \A j \in ilast.start..(ilast.end - 1) : sections[j + 1] = NewRow
       /\ sectionPosition(size, n + k) = sectionPosition(size, n) + inserted

\* rowsInserted [5, 8) has just reached a grid of rows 0..9.
InsertedThreeAtFive ==
  /\ ilast.op = "rowsInserted"
  /\ ilast.start = 5
  /\ ilast.end = 8
  /\ ilast.before = [i \in 1..10 |-> i - 1]

\* The indices at which the rows formerly at 5..9 now are.
MovedTo == {j \in 0..(Len(sections) - 1) : sections[j + 1] \in 5..9}

\* C13 (as stated): rowsInserted [5, 8) into a grid of 10 rows moves the rows
\* formerly at 5..9 to 8..13, and the geometry map shifts every section at or
\* after the start by the inserted extent and grows the total extent by it.
C13_RowsMoveToEightThroughThirteen ==
  /\ InsertShifts
  /\ InsertedThreeAtFive => MovedTo = 8..13

\* C13 (amended): the same, with the five rows formerly at 5..9 at 8..12.
C13_RowsMoveToEightThroughTwelve ==
  /\ InsertShifts
  /\ InsertedThreeAtFive => MovedTo = 8..12

C13_Witness == InsertedThreeAtFive /\ Len(sections) = 13

\* The k-th read of the most recent assignment saw the value its emission
\* announced.
ReadsNewValue(k) == observed.log[k].read = observed.log[k].for

\* Before the k-th read, a listener of the same emission made an assignment
\* that changed the stored value again (and so started a later emission).
ChangedAgainBefore(k) ==
  \E j \in 1..(k - 1) : observed.log[j].id > observed.log[k].id

\* Listeners that only read or assign back what they read cause no emission
\* beyond the one of the assignment, and each is called once for it.
EchoIsSilent ==
  (\A i \in 1..Len(handlers) : handlers[i] # "reset") =>
    /\ observed.emits <= 1
    /\ Cardinality({k \in 1..Len(observed.log) : observed.log[k].who = "listener"})
         = observed.emits * Len(handlers)

\* C14 (as stated): the signal is emitted after the store, so every listener
\* called for the emission of a changing assignment, and every nested
\* assignment made during it, reads the new value; a listener that assigns
\* the same value again causes no further emission.
C14_EveryListenerReadsNewValue ==
  observed.op = "assign" =>
    /\ observed.emits = 0 => observed.log = <<>> /\ backgroundColor = observed.before
    /\ \A k \in 1..Len(observed.log) : ReadsNewValue(k)
    /\ EchoIsSilent

\* C14 (amended): the same, for every listener and nested assignment reached
\* before a listener of that emission has assigned a different value.
C14_ListenersReadNewValueUntilChanged ==
  observed.op = "assign" =>
    /\ observed.emits = 0 => observed.log = <<>> /\ backgroundColor = observed.before
    /\ \A k \in 1..Len(observed.log) : ReadsNewValue(k) \/ ChangedAgainBefore(k)
    /\ EchoIsSilent

C14_Witness ==
  /\ handlers = <<"echo", "read">>
  /\ observed.op = "assign"
  /\ observed.emits = 1
  /\ Len(observed.log) = 3
  /\ \A k \in 1..3 : ReadsNewValue(k)

\* The value a property reads back after v was assigned to it.
ReadBack(v) == IF v = Undefined THEN Null ELSE v

\* The field that backs a property.
Field(g, prop) ==
  CASE prop = "model" -> g._model
    [] prop = "rowHeader" -> g._rowHeader
    [] prop = "columnHeader" -> g._columnHeader

\* C15: reading model, rowHeader or columnHeader returns the value most
\* recently assigned to it, null and undefined reading back as null, and
\* assigning the value already stored changes nothing.
C15_PropertiesReadBack ==
  /\ glast.op = "get" =>
       glast.result = ReadBack(CASE glast.prop = "model" -> wrote.model
                                 [] glast.prop = "rowHeader" -> wrote.rowHeader
                                 [] glast.prop = "columnHeader" -> wrote.columnHeader)
  /\ (glast.op = "set" /\ ReadBack(glast.value) = Field(glast.before, glast.prop)) =>
       grid = glast.before

\* C16: cellData writes the value of every cell and never the renderer; for a
\* cell outside the styled block it leaves the options as they were, so such
\* a cell shows the options the previous call left and has no options only
\* when the record handed in had none.
C16_CellDataFrame ==
  dlast.op = "cellData" =>
    /\ record.value.t = "string"
    /\ record.value.s =
         "(" \o toString(Num(dlast.row)) \o ", " \o toString(Num(dlast.column)) \o ")"
    /\ record.renderer = dlast.before.renderer
    /\ ~Styled(dlast.row, dlast.column) =>
         /\ record.options = dlast.before.options
         /\ record.options = Null => dlast.before.options = Null

\* An unstyled cell is handed out with the options of the styled cell before it.
C16_Witness ==
  /\ dlast.op = "cellData"
  /\ ~Styled(dlast.row, dlast.column)
  /\ record.options = redOptions
  /\ record.renderer = Str("text")
  /\ record.value # dlast.before.value

====
